---- MODULE Spec2Model ----
(***************************************************************************)
(* Order pricing and customer-ledger consistency of the order-management   *)
(* application: POST/PATCH/DELETE /api/orders, the fire-and-forget         *)
(* handleCustomerAsync reconciliation, the catalog endpoints and the read  *)
(* endpoints, modelled over the rows of the relational store.              *)
(*                                                                         *)
(* Strings the code inspects character by character (phones, names) are    *)
(* sequences of one-character strings.  Money is kept in whole currency    *)
(* units; the catalog prices and the discount percents drawn below are     *)
(* chosen so that subtotal * percent / 100 is a whole number, for which    *)
(* the IEEE doubles of the code are exact.  The double NaN is the value    *)
(* NaN below and is propagated by the F* operators as IEEE does.           *)
(***************************************************************************)
EXTENDS Integers, Sequences, FiniteSets, TLC

VARIABLES
  products,    \* Product rows, by id
  modifiers,   \* Modifier rows, by id
  orders,      \* Order rows with their OrderItem / OrderItemModifier rows; id = index
  customers,   \* Customer rows; id = index
  tasks,       \* per order: the handleCustomerAsync call scheduled by its POST
  edits,       \* PATCH /orders/{id} handlers between their reads and their transaction
  nEdits,      \* number of PATCH /orders/{id} requests received so far
  last         \* the last HTTP response sent: [op, status, error]

vars == <<products, modifiers, orders, customers, tasks, edits, nEdits, last>>
db == <<products, modifiers, orders, customers>>

-----------------------------------------------------------------------------
(* Bounds                                                                  *)

MaxOrders == 1
MaxEdits == 1
MaxPair == 2
MaxAppends == 2

-----------------------------------------------------------------------------
(* Values                                                                  *)

\* SQL NULL of a nullable id or timestamp column
NULLID == 0
\* JSON null / SQL NULL of a text column
NULL == "<null>"
\* a property missing from the request body
UNDEFINED == "<undefined>"
\* IEEE NaN, as produced by Number(undefined) and Number("abc")
NaN == -999999
\* the phone length the ledger keys on
PhoneLen == 10

Digits == {"0", "1", "2", "3", "4", "5", "6", "7", "8", "9"}

Rep(c, n) == [i \in 1..n |-> c]

\* String.prototype.trim
RECURSIVE TrimLeft(_)
TrimLeft(s) == IF s # <<>> /\ Head(s) = " " THEN TrimLeft(Tail(s)) ELSE s
RECURSIVE TrimRight(_)
TrimRight(s) ==
  IF s # <<>> /\ s[Len(s)] = " " THEN TrimRight(SubSeq(s, 1, Len(s) - 1)) ELSE s
Trim(s) == TrimRight(TrimLeft(s))

IsDigit(c) == c \in Digits
\* s.replace(/\D/g, '')
StripNonDigits(s) == SelectSeq(s, IsDigit)

\* /^\d+$/.test(s)
AllDigits(s) == s # <<>> /\ \A i \in 1..Len(s) : IsDigit(s[i])

\* raw JSON values of a numeric request property
Undef == [kind |-> "undefined", v |-> 0]
JNull == [kind |-> "null", v |-> 0]
JText == [kind |-> "text", v |-> 0]
Num(n) == [kind |-> "num", v |-> n]

\* Number(x)
ToNumber(raw) ==
  CASE raw.kind = "num" -> raw.v
    [] raw.kind = "null" -> 0
    [] OTHER -> NaN

\* IEEE arithmetic and comparison on doubles that may be NaN
FAdd(a, b) == IF a = NaN \/ b = NaN THEN NaN ELSE a + b
FSub(a, b) == IF a = NaN \/ b = NaN THEN NaN ELSE a - b
FMul(a, b) == IF a = NaN \/ b = NaN THEN NaN ELSE a * b
FDiv100(a) == IF a = NaN THEN NaN ELSE a \div 100
FEq(a, b) == a # NaN /\ b # NaN /\ a = b
FGt(a, b) == a # NaN /\ b # NaN /\ a > b
\* Math.min / Math.max: NaN if either argument is NaN
MathMin(a, b) == IF a = NaN \/ b = NaN THEN NaN ELSE IF a < b THEN a ELSE b
MathMax(a, b) == IF a = NaN \/ b = NaN THEN NaN ELSE IF a > b THEN a ELSE b
\* x || d on numbers: 0 and NaN are falsy
OrElse(x, d) == IF x = NaN \/ x = 0 THEN d ELSE x

RECURSIVE SumSeq(_)
SumSeq(s) == IF s = <<>> THEN 0 ELSE Head(s) + SumSeq(Tail(s))

-----------------------------------------------------------------------------
(* Pricing: the line-item resolution shared by POST and PATCH /orders      *)

\* a variant that would skip the lines whose product is unknown instead of refusing the request
NormaliseKnownItems(items) ==
  LET Known(i) == i.productId \in DOMAIN products
      known == SelectSeq(items, Known)
  IN [k \in 1..Len(known) |->
        [productId |-> known[k].productId,
         quantity |-> MathMax(1, OrElse(ToNumber(known[k].quantity), 1)),
         modifierIds |-> known[k].modifierIds]]

\* items.map(i => ({productId, quantity: Math.max(1, Number(i.quantity) || 1), modifierIds}))
NormaliseItems(items) ==
  [k \in 1..Len(items) |->
     [productId |-> items[k].productId,
      quantity |-> MathMax(1, OrElse(ToNumber(items[k].quantity), 1)),
      modifierIds |-> items[k].modifierIds]]

\* prisma.product.findMany({where: {id: {in: productIds}}}), as the set of ids found
FoundProducts(nitems) == {nitems[k].productId : k \in 1..Len(nitems)} \cap DOMAIN products

\* products.length !== productIds.length
ProductsMissing(nitems) ==
  Cardinality(FoundProducts(nitems)) # Cardinality({nitems[k].productId : k \in 1..Len(nitems)})

\* the modifierMap: prisma.modifier.findMany({where: {id: {in: ids}, isActive: true}})
ModifierFound(mid) == mid \in DOMAIN modifiers /\ modifiers[mid].isActive

\* i.modifierIds.map(id => modifierMap.get(id)).filter(m => !!m)
AppliedModifiers(mids) == SelectSeq(mids, ModifierFound)

\* one entry of orderItemsData / newItemsData
ResolveItem(i) ==
  LET applied == AppliedModifiers(i.modifierIds)
      toppingsPerUnit == SumSeq([k \in 1..Len(applied) |-> modifiers[applied[k]].price])
      unitPrice == products[i.productId].price + toppingsPerUnit
  IN  [productId |-> i.productId,
       quantity |-> i.quantity,
       unitPrice |-> unitPrice,
       lineTotal |-> unitPrice * i.quantity,
       modifiers |-> [k \in 1..Len(applied) |->
                        [modifierId |-> applied[k],
                         nameAtTime |-> modifiers[applied[k]].name,
                         priceAtTime |-> modifiers[applied[k]].price,
                         costAtTime |-> modifiers[applied[k]].cost]]]

ResolveItems(nitems) == [k \in 1..Len(nitems) |-> ResolveItem(nitems[k])]

\* items.reduce((sum, item) => sum + item.lineTotal, 0)
ItemsTotal(items) == SumSeq([k \in 1..Len(items) |-> items[k].lineTotal])

\* POST: Math.max(0, Math.min(100, Number(discountPercent) || 0))
PostSafePercent(raw) == MathMax(0, MathMin(100, OrElse(ToNumber(raw), 0)))

\* (subtotal * safePercent) / 100
DiscountAmount(subtotal, percent) == FDiv100(FMul(subtotal, percent))

\* POST: safePercent > 0 ? discountNote ?? null : null
PostNote(percent, note) ==
  IF FGt(percent, 0) THEN (IF note = UNDEFINED THEN NULL ELSE note) ELSE NULL

-----------------------------------------------------------------------------
(* POST /api/orders                                                        *)

NoTask ==
  [pc |-> "none", name |-> <<>>, phone |-> <<>>, amount |-> 0,
   existing |-> NULLID, existingName |-> <<>>]

\* NextResponse.json({error}, {status}); a success carries no error
Respond(op, status, error) == last' = [op |-> op, status |-> status, error |-> error]

PostOrder(req) ==
  LET phone == Trim(req.customerPhone)
      nitems == NormaliseItems(req.items)
  IN
  IF req.customerName = <<>> \/ req.items = <<>> \/ ProductsMissing(nitems)
  THEN /\ Respond("POST /orders", 400,
                  IF req.customerName = <<>> THEN "customerName is required"
                  ELSE IF req.items = <<>> THEN "At least one item is required"
                  ELSE "One or more products not found")
       /\ UNCHANGED <<db, tasks, edits, nEdits>>
  ELSE
    LET items == ResolveItems(nitems)
        subtotal == ItemsTotal(items)
        safePercent == PostSafePercent(req.discountPercent)
        discountAmount == DiscountAmount(subtotal, safePercent)
        finalAmount == FSub(subtotal, discountAmount)
        order == [customerName |-> req.customerName,
                  customerPhone |-> phone,
                  customerId |-> NULLID,
                  amount |-> finalAmount,
                  subtotal |-> subtotal,
                  discountPercent |-> safePercent,
                  discountAmount |-> discountAmount,
                  discountNote |-> PostNote(safePercent, req.discountNote),
                  deletedAt |-> NULLID,
                  items |-> items]
    IN /\ orders' = Append(orders, order)
       /\ tasks' = Append(tasks,
            IF Len(phone) = PhoneLen
            THEN [NoTask EXCEPT !.pc = "find", !.name = req.customerName,
                                 !.phone = phone, !.amount = finalAmount]
            ELSE NoTask)
       /\ Respond("POST /orders", 201, "")
       /\ UNCHANGED <<products, modifiers, customers, edits, nEdits>>

-----------------------------------------------------------------------------
(* handleCustomerAsync, one action per storage step                        *)

CustomerByPhone(phone) ==
  IF \E c \in 1..Len(customers) : customers[c].phone = phone
  THEN CHOOSE c \in 1..Len(customers) : customers[c].phone = phone
  ELSE NULLID

SetTask(o, t) == tasks' = [tasks EXCEPT ![o] = t]

TS == 1   \* new Date(): some timestamp; only its being set is observed

\* prisma.customer.findUnique({where: {phone: customerPhone}})
ReconcileFind(o) ==
  /\ tasks[o].pc = "find"
  /\ LET c == CustomerByPhone(tasks[o].phone)
     IN SetTask(o, [tasks[o] EXCEPT
                      !.pc = IF c # NULLID THEN "update" ELSE "create",
                      !.existing = c,
                      !.existingName = IF c # NULLID THEN customers[c].name ELSE <<>>])
  /\ UNCHANGED <<db, edits, nEdits, last>>

\* prisma.$transaction([customer.update(increments), order.update(customerId)])
ReconcileUpdate(o) ==
  /\ tasks[o].pc = "update"
  /\ LET t == tasks[o]
         c == t.existing
     IN /\ customers' = [customers EXCEPT ![c] =
               [@ EXCEPT !.orderCount = @ + 1,
                         !.totalSpent = FAdd(@, t.amount),
                         !.lastOrderAt = TS,
                         !.name = IF t.existingName # t.name THEN t.name ELSE @]]
        /\ orders' = [orders EXCEPT ![o].customerId = c]
        /\ SetTask(o, [t EXCEPT !.pc = "done"])
  /\ UNCHANGED <<products, modifiers, edits, nEdits, last>>

\* prisma.customer.create(...); the unique index on phone rejects a second row
ReconcileCreate(o) ==
  /\ tasks[o].pc = "create"
  /\ LET t == tasks[o]
     IN IF CustomerByPhone(t.phone) # NULLID
        THEN /\ SetTask(o, [t EXCEPT !.pc = "failed"])
             /\ UNCHANGED customers
        ELSE /\ customers' = Append(customers,
                   [phone |-> t.phone, name |-> t.name, orderCount |-> 1,
                    totalSpent |-> t.amount, lastOrderAt |-> TS])
             /\ SetTask(o, [t EXCEPT !.pc = "link", !.existing = Len(customers) + 1])
  /\ UNCHANGED <<products, modifiers, orders, edits, nEdits, last>>

\* prisma.order.update({where: {id: orderId}, data: {customerId: newCustomer.id}})
ReconcileLink(o) ==
  /\ tasks[o].pc = "link"
  /\ orders' = [orders EXCEPT ![o].customerId = tasks[o].existing]
  /\ SetTask(o, [tasks[o] EXCEPT !.pc = "done"])
  /\ UNCHANGED <<products, modifiers, customers, edits, nEdits, last>>

\* a variant that would compensate a failed reconciliation by withdrawing the order
ReconcileFailRollback(o) ==
  /\ tasks[o].pc \in {"find", "update", "create", "link"}
  /\ SetTask(o, [tasks[o] EXCEPT !.pc = "failed"])
  /\ orders' = [orders EXCEPT ![o].deletedAt = TS]
  /\ UNCHANGED <<products, modifiers, customers, edits, nEdits, last>>

\* a storage call of handleCustomerAsync throws: caught, logged, nothing else
ReconcileFail(o) ==
  /\ tasks[o].pc \in {"find", "update", "create", "link"}
  /\ SetTask(o, [tasks[o] EXCEPT !.pc = "failed"])
  /\ UNCHANGED <<db, edits, nEdits, last>>

-----------------------------------------------------------------------------
(* DELETE /api/orders/{id}                                                 *)

DeleteOrder(id) ==
  IF id \in 1..Len(orders)
  THEN /\ orders' = [orders EXCEPT ![id].deletedAt = TS]
       /\ Respond("DELETE /orders", 200, "")
       /\ UNCHANGED <<products, modifiers, customers, tasks, edits, nEdits>>
  ELSE \* prisma.order.update throws on a missing row: the catch answers 500
       /\ Respond("DELETE /orders", 500, "Failed to delete order")
       /\ UNCHANGED <<db, tasks, edits, nEdits>>

-----------------------------------------------------------------------------
(* PATCH /api/orders/{id}: the reads, then the transaction                 *)

\* Math.max(0, Math.min(100, Number(discountPercent) ?? currentOrder.discountPercent)):
\* Number(...) is never null or undefined, so ?? never takes its right-hand side
PatchSafePercent(raw, current) == MathMax(0, MathMin(100, ToNumber(raw)))

\* a variant that would keep the note whatever the percent
PatchNoteKeep(percent, note, current) == IF note = UNDEFINED THEN current ELSE note

\* safePercent > 0 ? (discountNote ?? currentOrder.discountNote) : null
PatchNote(percent, note, current) ==
  IF FGt(percent, 0) THEN (IF note = UNDEFINED THEN current ELSE note) ELSE NULL

\* customerName?.trim() || currentOrder.customerName
PatchName(name, current) == IF Trim(name) # <<>> THEN Trim(name) ELSE current

\* (customerPhone?.trim() || currentOrder.customerPhone).replace(/\D/g, '')
PatchPhone(phone, current) ==
  StripNonDigits(IF Trim(phone) # <<>> THEN Trim(phone) ELSE current)

\* a variant that would not look at deletedAt
IsDeletedNever(order) == FALSE

\* currentOrder.deletedAt is truthy
IsDeleted(order) == order.deletedAt # NULLID

\* everything the handler computes between findUnique and $transaction
PatchPlan(id, req) ==
  LET cur == orders[id]
      newItemsData == ResolveItems(NormaliseItems(req.newItems))
      newSubtotal == ItemsTotal(cur.items) + ItemsTotal(newItemsData)
      safePercent == PatchSafePercent(req.discountPercent, cur.discountPercent)
      newDiscountAmount == DiscountAmount(newSubtotal, safePercent)
      newFinalAmount == FSub(newSubtotal, newDiscountAmount)
      trimmedPhone == PatchPhone(req.customerPhone, cur.customerPhone)
  IN [id |-> id,
      name |-> PatchName(req.customerName, cur.customerName),
      phone |-> trimmedPhone,
      newItems |-> newItemsData,
      subtotal |-> newSubtotal,
      percent |-> safePercent,
      discountAmount |-> newDiscountAmount,
      amount |-> newFinalAmount,
      note |-> PatchNote(safePercent, req.discountNote, cur.discountNote),
      oldCustomerId |-> cur.customerId,
      oldAmount |-> cur.amount,
      phoneChanged |-> trimmedPhone # cur.customerPhone,
      amountChanged |-> ~FEq(newFinalAmount, cur.amount)]

\* trimmedPhone && trimmedPhone.length !== 10 && trimmedPhone.length !== 0
PatchPhoneInvalid(id, req) ==
  LET ph == PatchPhone(req.customerPhone, orders[id].customerPhone)
  IN ph # <<>> /\ Len(ph) # PhoneLen

PatchBegin(id, req) ==
  IF id \notin 1..Len(orders)
  THEN /\ Respond("PATCH /orders", 404, "Order not found")
       /\ nEdits' = nEdits + 1
       /\ UNCHANGED <<db, tasks, edits>>
  ELSE IF \/ IsDeleted(orders[id])
          \/ PatchPhoneInvalid(id, req)
          \/ ProductsMissing(NormaliseItems(req.newItems))
  THEN /\ Respond("PATCH /orders", 400,
                  IF IsDeleted(orders[id]) THEN "Cannot edit a deleted order"
                  ELSE IF PatchPhoneInvalid(id, req)
                  THEN "Phone must be exactly 10 digits or empty"
                  ELSE "One or more products not found")
       /\ nEdits' = nEdits + 1
       /\ UNCHANGED <<db, tasks, edits>>
  ELSE /\ edits' = Append(edits, PatchPlan(id, req))
       /\ nEdits' = nEdits + 1
       /\ UNCHANGED <<db, tasks, last>>

RemoveAt(s, k) == SubSeq(s, 1, k - 1) \o SubSeq(s, k + 1, Len(s))

\* a variant that would never take the order away from its old customer
PatchCustomersNoDecrement(e) ==
  LET found == CustomerByPhone(e.phone)
  IN IF Len(e.phone) # PhoneLen THEN customers
     ELSE IF found # NULLID
     THEN [customers EXCEPT ![found] =
             [@ EXCEPT !.name = e.name,
                       !.totalSpent = FAdd(@, e.amount),
                       !.orderCount = @ + 1,
                       !.lastOrderAt = TS]]
     ELSE Append(customers, [phone |-> e.phone, name |-> e.name, orderCount |-> 1,
                             totalSpent |-> e.amount, lastOrderAt |-> TS])

\* the customer rows after the transaction's decrement and create-or-increment
PatchCustomers(e) ==
  LET dec == IF e.oldCustomerId # NULLID /\ (e.amountChanged \/ e.phoneChanged)
             THEN [customers EXCEPT ![e.oldCustomerId] =
                     [@ EXCEPT !.totalSpent = FSub(@, e.oldAmount),
                               !.orderCount = @ - 1]]
             ELSE customers
      found == IF \E c \in 1..Len(dec) : dec[c].phone = e.phone
               THEN CHOOSE c \in 1..Len(dec) : dec[c].phone = e.phone
               ELSE NULLID
  IN IF Len(e.phone) # PhoneLen THEN dec
     ELSE IF found # NULLID
     THEN [dec EXCEPT ![found] =
             [@ EXCEPT !.name = e.name,
                       !.totalSpent = FAdd(@, e.amount),
                       !.orderCount = @ + 1,
                       !.lastOrderAt = TS]]
     ELSE Append(dec, [phone |-> e.phone, name |-> e.name, orderCount |-> 1,
                       totalSpent |-> e.amount, lastOrderAt |-> TS])

\* newCustomerId
PatchCustomerId(e) ==
  IF Len(e.phone) # PhoneLen THEN NULLID
  ELSE IF \E c \in 1..Len(customers) : customers[c].phone = e.phone
  THEN CHOOSE c \in 1..Len(customers) : customers[c].phone = e.phone
  ELSE Len(customers) + 1

\* a variant that would re-price the existing lines from the current catalog
PatchOrderRowReprice(e) ==
  LET Reprice(item) ==
        LET unitPrice == products[item.productId].price
                         + SumSeq([j \in 1..Len(item.modifiers) |->
                                     modifiers[item.modifiers[j].modifierId].price])
        IN [item EXCEPT !.unitPrice = unitPrice, !.lineTotal = unitPrice * item.quantity]
  IN [orders[e.id] EXCEPT
        !.customerName = e.name,
        !.customerPhone = e.phone,
        !.customerId = PatchCustomerId(e),
        !.subtotal = e.subtotal,
        !.discountPercent = e.percent,
        !.discountAmount = e.discountAmount,
        !.discountNote = e.note,
        !.amount = e.amount,
        !.items = [k \in 1..Len(@) |-> Reprice(@[k])] \o e.newItems]

\* a variant that would replace the order's lines by the new ones
PatchOrderRowReplace(e) ==
  [orders[e.id] EXCEPT
     !.customerName = e.name,
     !.customerPhone = e.phone,
     !.customerId = PatchCustomerId(e),
     !.subtotal = e.subtotal,
     !.discountPercent = e.percent,
     !.discountAmount = e.discountAmount,
     !.discountNote = e.note,
     !.amount = e.amount,
     !.items = IF e.newItems = <<>> THEN @ ELSE e.newItems]

\* tx.orderItem.create for each new item, then tx.order.update
PatchOrderRow(e) ==
  [orders[e.id] EXCEPT
     !.customerName = e.name,
     !.customerPhone = e.phone,
     !.customerId = PatchCustomerId(e),
     !.subtotal = e.subtotal,
     !.discountPercent = e.percent,
     !.discountAmount = e.discountAmount,
     !.discountNote = e.note,
     !.amount = e.amount,
     !.items = @ \o e.newItems]

\* prisma.$transaction(async tx => ...) commits.  What the client and the
\* store do with a NaN double is outside the repository: the write is either
\* refused (PatchFail) or persisted as NaN (here).
PatchCommit(k) ==
  /\ k \in 1..Len(edits)
  /\ LET e == edits[k]
     IN /\ customers' = PatchCustomers(e)
        /\ orders' = [orders EXCEPT ![e.id] = PatchOrderRow(e)]
        /\ edits' = RemoveAt(edits, k)
        /\ Respond("PATCH /orders", 200, "")
  /\ UNCHANGED <<products, modifiers, tasks, nEdits>>

\* the transaction throws (storage error, constraint violation, refused NaN):
\* it is rolled back and the catch answers 500
PatchFail(k) ==
  /\ k \in 1..Len(edits)
  /\ edits' = RemoveAt(edits, k)
  /\ Respond("PATCH /orders", 500, "Failed to update order")
  /\ UNCHANGED <<db, tasks, nEdits>>

-----------------------------------------------------------------------------
(* Catalog: PATCH /api/products/{id}, PATCH and DELETE /api/modifiers/{id} *)

\* typeof x === 'number' && !Number.isNaN(x)
IsNumber(raw) == raw.kind = "num" /\ raw.v # NaN
\* typeof name === 'string' && name.trim()
IsName(name) == name # UNDEFINED /\ Trim(name) # <<>>

PatchProduct(id, body) ==
  IF ~(IsName(body.name) \/ IsNumber(body.price) \/ IsNumber(body.cost)
       \/ body.hasModifiers # UNDEFINED)
  THEN /\ Respond("PATCH /products", 400, "No valid fields to update")
       /\ UNCHANGED <<db, tasks, edits, nEdits>>
  ELSE IF id \notin DOMAIN products
  THEN \* prisma.product.update throws on a missing row
       /\ Respond("PATCH /products", 500, "Failed to update product")
       /\ UNCHANGED <<db, tasks, edits, nEdits>>
  ELSE /\ products' = [products EXCEPT ![id] =
            [@ EXCEPT !.name = IF IsName(body.name) THEN Trim(body.name) ELSE @,
                      !.price = IF IsNumber(body.price) THEN body.price.v ELSE @,
                      !.cost = IF IsNumber(body.cost) THEN body.cost.v ELSE @,
                      !.hasModifiers = IF body.hasModifiers # UNDEFINED
                                       THEN body.hasModifiers ELSE @]]
       /\ Respond("PATCH /products", 200, "")
       /\ UNCHANGED <<modifiers, orders, customers, tasks, edits, nEdits>>

PatchModifier(id, body) ==
  IF ~(IsName(body.name) \/ IsNumber(body.price) \/ IsNumber(body.cost))
  THEN /\ Respond("PATCH /modifiers", 400, "No valid fields to update")
       /\ UNCHANGED <<db, tasks, edits, nEdits>>
  ELSE IF id \notin DOMAIN modifiers
  THEN /\ Respond("PATCH /modifiers", 500, "Failed to update modifier")
       /\ UNCHANGED <<db, tasks, edits, nEdits>>
  ELSE /\ modifiers' = [modifiers EXCEPT ![id] =
            [@ EXCEPT !.name = IF IsName(body.name) THEN Trim(body.name) ELSE @,
                      !.price = IF IsNumber(body.price) THEN body.price.v ELSE @,
                      !.cost = IF IsNumber(body.cost) THEN body.cost.v ELSE @]]
       /\ Respond("PATCH /modifiers", 200, "")
       /\ UNCHANGED <<products, orders, customers, tasks, edits, nEdits>>

DeleteModifier(id) ==
  IF id \in DOMAIN modifiers
  THEN /\ modifiers' = [modifiers EXCEPT ![id].isActive = FALSE]
       /\ Respond("DELETE /modifiers", 200, "")
       /\ UNCHANGED <<products, orders, customers, tasks, edits, nEdits>>
  ELSE /\ Respond("DELETE /modifiers", 500, "Failed to delete modifier")
       /\ UNCHANGED <<db, tasks, edits, nEdits>>

-----------------------------------------------------------------------------
(* POST /api/customers, PATCH /api/customers/{id}                          *)

\* normalizedPhone.length !== 10 || !/^\d+$/.test(normalizedPhone)
BadCustomerPhone(phone) == Len(phone) # PhoneLen \/ ~AllDigits(phone)

PostCustomer(body) ==
  LET normalizedPhone == Trim(body.phone)
  IN
  IF body.name = <<>> \/ body.phone = <<>>
  THEN /\ Respond("POST /customers", 400, "name and phone are required")
       /\ UNCHANGED <<db, tasks, edits, nEdits>>
  ELSE IF BadCustomerPhone(normalizedPhone)
  THEN /\ Respond("POST /customers", 400, "Phone must be exactly 10 digits")
       /\ UNCHANGED <<db, tasks, edits, nEdits>>
  ELSE IF CustomerByPhone(normalizedPhone) # NULLID
  THEN /\ Respond("POST /customers", 409, "Customer with this phone number already exists")
       /\ UNCHANGED <<db, tasks, edits, nEdits>>
  ELSE /\ customers' = Append(customers,
            [phone |-> normalizedPhone, name |-> Trim(body.name), orderCount |-> 0,
             totalSpent |-> 0, lastOrderAt |-> NULLID])
       /\ Respond("POST /customers", 201, "")
       /\ UNCHANGED <<products, modifiers, orders, tasks, edits, nEdits>>

\* a variant whose cascade would skip the soft-deleted orders
CascadeLiveOrders(id, nameChanged, name, phoneChanged, phone) ==
  [o \in 1..Len(orders) |->
     IF orders[o].customerId = id /\ orders[o].deletedAt = NULLID
     THEN [orders[o] EXCEPT
             !.customerName = IF nameChanged THEN name ELSE @,
             !.customerPhone = IF phoneChanged THEN phone ELSE @]
     ELSE orders[o]]

\* tx.order.updateMany({where: {customerId: id}, data: orderUpdateData})
CascadeOrders(id, nameChanged, name, phoneChanged, phone) ==
  [o \in 1..Len(orders) |->
     IF orders[o].customerId = id
     THEN [orders[o] EXCEPT
             !.customerName = IF nameChanged THEN name ELSE @,
             !.customerPhone = IF phoneChanged THEN phone ELSE @]
     ELSE orders[o]]

PatchCustomer(id, body) ==
  LET trimmedName == Trim(body.name)
      trimmedPhone == Trim(body.phone)
  IN
  IF trimmedName = <<>> /\ trimmedPhone = <<>>
  THEN /\ Respond("PATCH /customers", 400, "At least one of name or phone is required")
       /\ UNCHANGED <<db, tasks, edits, nEdits>>
  ELSE IF id \notin 1..Len(customers)
  THEN /\ Respond("PATCH /customers", 404, "Customer not found")
       /\ UNCHANGED <<db, tasks, edits, nEdits>>
  ELSE IF trimmedPhone # <<>> /\ BadCustomerPhone(trimmedPhone)
  THEN /\ Respond("PATCH /customers", 400, "Phone must be exactly 10 digits")
       /\ UNCHANGED <<db, tasks, edits, nEdits>>
  ELSE IF /\ trimmedPhone # <<>>
          /\ trimmedPhone # customers[id].phone
          /\ CustomerByPhone(trimmedPhone) # NULLID
  THEN /\ Respond("PATCH /customers", 409, "Another customer already has this phone number")
       /\ UNCHANGED <<db, tasks, edits, nEdits>>
  ELSE LET nameChanged == trimmedName # <<>> /\ trimmedName # customers[id].name
           phoneChanged == trimmedPhone # <<>> /\ trimmedPhone # customers[id].phone
       IN /\ customers' = [customers EXCEPT ![id] =
               [@ EXCEPT !.name = IF trimmedName # <<>> THEN trimmedName ELSE @,
                         !.phone = IF trimmedPhone # <<>> THEN trimmedPhone ELSE @]]
          /\ orders' = IF nameChanged \/ phoneChanged
                       THEN CascadeOrders(id, nameChanged, trimmedName,
                                          phoneChanged, trimmedPhone)
                       ELSE orders
          /\ Respond("PATCH /customers", 200, "")
          /\ UNCHANGED <<products, modifiers, tasks, edits, nEdits>>

-----------------------------------------------------------------------------
(* Read endpoints, as functions of the stored rows.  `ids` is the set of   *)
(* Order rows in the table; createdAt order is the order of the ids.       *)

RECURSIVE FSum(_, _)
\* reduce((sum, x) => sum + x, 0) over the rows S, f[o] the summand of row o
FSum(S, f) ==
  IF S = {} THEN 0
  ELSE LET o == CHOOSE x \in S : TRUE IN FAdd(f[o], FSum(S \ {o}, f))

RECURSIVE Desc(_)
\* orderBy: {createdAt: 'desc'}
Desc(S) ==
  IF S = {} THEN <<>>
  ELSE LET m == CHOOSE x \in S : \A y \in S : y <= x IN <<m>> \o Desc(S \ {m})

\* take: n
Take(s, n) == SubSeq(s, 1, IF n < Len(s) THEN n ELSE Len(s))

\* {contains: sub}; the names drawn below are lower-case, for which
\* mode: 'insensitive' is the plain containment
Contains(s, sub) ==
  \E k \in 0..(Len(s) - Len(sub)) : SubSeq(s, k + 1, k + Len(sub)) = sub

\* GET /api/orders: the where clause
OrdersWhere(ids, q) ==
  {o \in ids :
     /\ orders[o].deletedAt = NULLID
     /\ (q.search # <<>> =>
           Contains(orders[o].customerName, q.search)
           \/ Contains(orders[o].customerPhone, q.search))
     /\ (q.hasDiscount = "yes" => FGt(orders[o].discountPercent, 0))
     /\ (q.hasDiscount = "no" => FEq(orders[o].discountPercent, 0))
     /\ (q.productIds # {} =>
           \E k \in 1..Len(orders[o].items) : orders[o].items[k].productId \in q.productIds)}

\* GET /api/orders: {orders, totalCount, totalRevenue}
GetOrders(ids, q) ==
  LET w == OrdersWhere(ids, q)
  IN [orders |-> Take(Desc(w), MathMin(100, OrElse(ToNumber(q.limit), 20))),
      totalCount |-> Cardinality(w),
      totalRevenue |-> FSum(w, [o \in w |-> orders[o].amount])]

\* GET /api/stats: the orders it fetches (period 'all')
StatsOrders(ids) == {o \in ids : orders[o].deletedAt = NULLID}

\* product cost and modifier snapshot cost of one order
OrderCost(o) ==
  SumSeq([k \in 1..Len(orders[o].items) |->
    LET item == orders[o].items[k]
    IN products[item.productId].cost * item.quantity
       + SumSeq([j \in 1..Len(item.modifiers) |-> item.modifiers[j].costAtTime * item.quantity])])

\* GET /api/stats: summary and discount breakdown
GetStats(ids) ==
  LET w == StatsOrders(ids)
      totalRevenue == FSum(w, [o \in w |-> orders[o].amount])
      totalCost == FSum(w, [o \in w |-> OrderCost(o)])
  IN [totalRevenue |-> totalRevenue,
      totalOrders |-> Cardinality(w),
      totalCost |-> totalCost,
      totalProfit |-> FSub(totalRevenue, totalCost),
      totalDiscountGiven |-> FSum(w, [o \in w |-> orders[o].discountAmount]),
      discountedOrders |-> {o \in w : FGt(orders[o].discountPercent, 0)}]

\* GET /api/stats/latest: the most recent order, NULLID if none
GetStatsLatest(ids) ==
  LET w == {o \in ids : orders[o].deletedAt = NULLID}
  IN IF w = {} THEN NULLID ELSE Desc(w)[1]

\* a variant that would list a customer's deleted orders too
CustomerHistoryAll(ids, c) == Desc({o \in ids : orders[o].customerId = c})

\* GET /api/customers/{id}: the order history included with the customer
CustomerHistory(ids, c) ==
  Desc({o \in ids : orders[o].customerId = c /\ orders[o].deletedAt = NULLID})

GetCustomer(ids, c) ==
  IF c \in 1..Len(customers)
  THEN [status |-> 200, customer |-> <<customers[c]>>, orders |-> CustomerHistory(ids, c)]
  ELSE [status |-> 404, customer |-> <<>>, orders |-> <<>>]

\* GET /api/customers without search: every customer row with its
\* _count.orders, totalCount and totalRevenue.  The rows are keyed by customer;
\* their order in the response (orderCount desc) is not represented.
GetCustomers(ids) ==
  [customers |-> [c \in 1..Len(customers) |->
                    [orderCount |-> customers[c].orderCount,
                     totalSpent |-> customers[c].totalSpent,
                     countOrders |-> Cardinality({o \in ids : orders[o].customerId = c})]],
   totalCount |-> Len(customers),
   totalRevenue |-> FSum(1..Len(customers),
                         [c \in 1..Len(customers) |-> customers[c].totalSpent])]

-----------------------------------------------------------------------------
(* Inputs                                                                  *)

NameA == <<"a">>
NameB == <<"b">>
PhA == Rep("9", PhoneLen)
PhB == Rep("8", PhoneLen)
PhShort == <<"1", "2", "3">>

Item(pid, q, mids) == [productId |-> pid, quantity |-> q, modifierIds |-> mids]

PostReq(name, phone, items, percent, note) ==
  [customerName |-> name, customerPhone |-> phone, items |-> items,
   discountPercent |-> percent, discountNote |-> note]

PatchReq(name, phone, percent, note, newItems) ==
  [customerName |-> name, customerPhone |-> phone, discountPercent |-> percent,
   discountNote |-> note, newItems |-> newItems]

CatalogBody(name, price, cost, hasModifiers) ==
  [name |-> name, price |-> price, cost |-> cost, hasModifiers |-> hasModifiers]

\* requests of the ledger specification: one catalog, varied customers
PostReqs ==
  { PostReq(NameA, PhA, <<Item("p1", Num(1), <<>>)>>, Undef, UNDEFINED),
    PostReq(NameB, <<" ">> \o PhA, <<Item("p1", Num(2), <<>>)>>, Num(10), "promo"),
    PostReq(NameA, PhShort, <<Item("p1", Num(1), <<>>)>>, Undef, UNDEFINED),
    PostReq(NameA, PhA, <<Item("p1", Num(1), <<>>), Item("px", Num(1), <<>>)>>, Undef, UNDEFINED) }

PatchReqs ==
  { PatchReq(NameB, <<>>, Num(0), UNDEFINED, <<>>),
    PatchReq(<<>>, PhB, Num(10), "promo", <<>>),
    PatchReq(<<>>, <<>>, Num(0), UNDEFINED, <<Item("p1", Num(1), <<>>)>>),
    PatchReq(<<>>, PhShort, Num(0), UNDEFINED, <<>>),
    PatchReq(NameB, PhB, Num(0), UNDEFINED, <<Item("px", Num(1), <<>>)>>) }

\* requests of the discount specification: no customers, varied discounts
DiscountPostReqs ==
  { PostReq(NameA, <<>>, <<Item("p1", Num(1), <<>>)>>, Num(10), "promo"),
    PostReq(NameA, <<>>, <<Item("p1", Num(1), <<>>)>>, Num(-5), "promo"),
    PostReq(NameA, <<>>, <<Item("p1", Num(1), <<>>)>>, Num(150), UNDEFINED),
    PostReq(NameA, <<>>, <<Item("p1", Num(1), <<>>)>>, JText, "promo"),
    PostReq(NameA, <<>>, <<Item("p1", Num(1), <<>>)>>, Undef, "promo"),
    PostReq(NameA, <<>>, <<Item("px", Num(1), <<>>)>>, Num(10), "promo"),
    PostReq(<<>>, <<>>, <<Item("p1", Num(1), <<>>)>>, Num(10), "promo"),
    PostReq(NameA, <<>>, <<>>, Num(10), "promo"),
    PostReq(NameA, <<>>, <<Item("p1", Num(2), <<>>)>>, Num(100), "free"),
    PostReq(NameA, <<>>, <<Item("p1", Num(1), <<>>)>>, JNull, "promo") }

DiscountPatchReqs ==
  { PatchReq(<<>>, <<>>, Undef, UNDEFINED, <<>>),
    PatchReq(<<>>, <<>>, Num(0), "promo", <<>>),
    PatchReq(<<>>, <<>>, Num(0), UNDEFINED, <<>>),
    PatchReq(<<>>, <<>>, Num(10), UNDEFINED, <<Item("p1", Num(1), <<>>)>>),
    PatchReq(<<>>, <<>>, Num(150), "vip", <<>>),
    PatchReq(<<>>, <<>>, Num(-5), "vip", <<>>),
    PatchReq(<<>>, <<>>, JText, "promo", <<>>),
    PatchReq(<<>>, <<>>, JNull, "promo", <<>>),
    PatchReq(NameB, <<>>, Num(50), "half", <<>>) }

\* requests of the catalog specification: no customers, varied line items
CatalogPostReqs ==
  { PostReq(NameA, <<>>, <<Item("p1", Num(1), <<"m1", "mx">>)>>, Num(10), "promo"),
    PostReq(NameA, <<>>, <<Item("p1", Num(0), <<>>), Item("p1", Num(2), <<"m1">>)>>, Num(10), "promo"),
    PostReq(NameA, <<>>, <<Item("px", Num(1), <<>>)>>, Num(10), "promo") }

CatalogPatchReqs ==
  { PatchReq(<<>>, <<>>, Num(10), UNDEFINED, <<Item("p1", Num(1), <<"m1">>)>>),
    PatchReq(NameB, <<>>, Num(10), UNDEFINED, <<>>),
    PatchReq(<<>>, <<>>, Num(10), UNDEFINED, <<Item("px", Num(1), <<>>)>>) }

ProductBodies ==
  { CatalogBody(UNDEFINED, Num(200), Num(50), UNDEFINED),
    CatalogBody(UNDEFINED, JText, Undef, UNDEFINED) }

ModifierBodies ==
  { CatalogBody(<<"M">>, Num(40), Num(10), UNDEFINED),
    CatalogBody(<<" ">>, Undef, Undef, UNDEFINED) }

ReqProductIds == {"p1", "px"}
ReqModifierIds == {"m1", "mx"}

\* requests of the pair specification: the same phone, two amounts
PairReqs ==
  { PostReq(NameA, PhA, <<Item("p1", Num(1), <<>>)>>, Undef, UNDEFINED),
    PostReq(NameB, PhA, <<Item("p1", Num(2), <<"m1">>)>>, Num(10), "promo"),
    PostReq(NameB, PhB, <<Item("p1", Num(1), <<>>)>>, Undef, UNDEFINED) }

PhDash == <<"9", "8", "7", "6", "5", "-", "4", "3", "2", "1">>

CustomerBody(name, phone) == [name |-> name, phone |-> phone]

\* requests of the customer specification
CustomerOrderReqs ==
  { PostReq(NameA, PhA, <<Item("p1", Num(1), <<>>)>>, Undef, UNDEFINED),
    PostReq(NameA, PhDash, <<Item("p1", Num(1), <<>>)>>, Undef, UNDEFINED) }

CustomerBodies ==
  { CustomerBody(NameB, <<" ">> \o PhA),
    CustomerBody(NameA, PhDash) }

CustomerPatchBodies ==
  { CustomerBody(NameB, <<>>),
    CustomerBody(<<>>, PhB),
    CustomerBody(<<>>, PhDash),
    CustomerBody(<<>>, <<>>) }

CustomerIds == 1..(MaxOrders + 2)

\* requests of the line-item specifications: varied modifier lists
ItemPostReqs ==
  { PostReq(NameA, <<>>, <<Item("p1", Num(2), <<"m1", "mx">>)>>, Num(10), "promo"),
    PostReq(NameA, <<>>, <<Item("p1", Num(1), <<"m1", "m1">>)>>, Undef, UNDEFINED) }

ItemPatchReqs ==
  { PatchReq(<<>>, <<>>, Num(10), UNDEFINED, <<Item("p1", Num(1), <<"m1">>)>>),
    PatchReq(<<>>, <<>>, Num(0), UNDEFINED, <<Item("p1", Num(3), <<>>)>>),
    PatchReq(NameB, <<>>, Num(10), UNDEFINED, <<>>) }

\* requests of the re-link specification: one linked order, edits that move it
RelinkPostReqs ==
  { PostReq(NameA, PhA, <<Item("p1", Num(1), <<>>)>>, Undef, UNDEFINED) }

RelinkPatchReqs ==
  { PatchReq(<<>>, PhB, Num(0), UNDEFINED, <<>>),
    PatchReq(<<>>, <<>>, Num(0), UNDEFINED, <<Item("p1", Num(1), <<>>)>>),
    PatchReq(NameB, <<>>, Num(0), UNDEFINED, <<>>) }

OrderIds == 1..(MaxOrders + 1)

-----------------------------------------------------------------------------
(* Specification                                                           *)

Init ==
  /\ products = [p \in {"p1"} |->
       [name |-> <<"A">>, price |-> 100, cost |-> 40, isActive |-> TRUE,
        hasModifiers |-> "true"]]
  /\ modifiers = [m \in {"m1"} |->
       [name |-> <<"N">>, price |-> 20, cost |-> 6, isActive |-> TRUE]]
  /\ orders = <<>>
  /\ customers = <<>>
  /\ tasks = <<>>
  /\ edits = <<>>
  /\ nEdits = 0
  /\ last = [op |-> "none", status |-> 0, error |-> ""]

Reconcile ==
  \/ \E o \in 1..Len(tasks) : ReconcileFind(o)
  \/ \E o \in 1..Len(tasks) : ReconcileUpdate(o)
  \/ \E o \in 1..Len(tasks) : ReconcileCreate(o)
  \/ \E o \in 1..Len(tasks) : ReconcileLink(o)
  \/ \E o \in 1..Len(tasks) : ReconcileFail(o)

\* orders, their edits and deletes, and the customer ledger
Next ==
  \/ \E req \in PostReqs : Len(orders) < MaxOrders /\ PostOrder(req)
  \/ Reconcile
  \/ \E id \in OrderIds, req \in PatchReqs : nEdits < MaxEdits /\ PatchBegin(id, req)
  \/ \E k \in 1..Len(edits) : PatchCommit(k)
  \/ \E k \in 1..Len(edits) : PatchFail(k)
  \/ \E id \in OrderIds : DeleteOrder(id)

Spec == Init /\ [][Next]_vars

\* orders and their edits against a catalog that changes under them
NextCatalog ==
  \/ \E req \in CatalogPostReqs : Len(orders) < MaxOrders /\ PostOrder(req)
  \/ \E id \in OrderIds, req \in CatalogPatchReqs : nEdits < MaxEdits /\ PatchBegin(id, req)
  \/ \E k \in 1..Len(edits) : PatchCommit(k)
  \/ \E k \in 1..Len(edits) : PatchFail(k)
  \/ \E id \in OrderIds : DeleteOrder(id)
  \/ \E id \in ReqProductIds, body \in ProductBodies : PatchProduct(id, body)
  \/ \E id \in ReqModifierIds, body \in ModifierBodies : PatchModifier(id, body)
  \/ \E id \in ReqModifierIds : DeleteModifier(id)

SpecCatalog == Init /\ [][NextCatalog]_vars

\* orders and their edits with every kind of discount input
NextDiscount ==
  \/ \E req \in DiscountPostReqs : Len(orders) < MaxOrders /\ PostOrder(req)
  \/ \E id \in OrderIds, req \in DiscountPatchReqs : nEdits < MaxEdits /\ PatchBegin(id, req)
  \/ \E k \in 1..Len(edits) : PatchCommit(k)
  \/ \E k \in 1..Len(edits) : PatchFail(k)
  \/ \E id \in OrderIds : DeleteOrder(id)

SpecDiscount == Init /\ [][NextDiscount]_vars

\* two orders and their reconciliations, no storage error
NextPair ==
  \/ \E req \in PairReqs : Len(orders) < MaxPair /\ PostOrder(req)
  \/ \E o \in 1..Len(tasks) : ReconcileFind(o)
  \/ \E o \in 1..Len(tasks) : ReconcileUpdate(o)
  \/ \E o \in 1..Len(tasks) : ReconcileCreate(o)
  \/ \E o \in 1..Len(tasks) : ReconcileLink(o)

SpecPair == Init /\ [][NextPair]_vars

\* the same where every storage call of a running handleCustomerAsync returns:
\* the promise is never abandoned, so each of its steps is eventually taken
PairFairness ==
  \A o \in 1..MaxPair :
    /\ WF_vars(o \in 1..Len(tasks) /\ ReconcileFind(o))
    /\ WF_vars(o \in 1..Len(tasks) /\ ReconcileUpdate(o))
    /\ WF_vars(o \in 1..Len(tasks) /\ ReconcileCreate(o))
    /\ WF_vars(o \in 1..Len(tasks) /\ ReconcileLink(o))

SpecPairFair == Init /\ [][NextPair]_vars /\ PairFairness

\* the customer endpoints beside orders, their reconciliations and their deletes
NextCustomers ==
  \/ \E req \in CustomerOrderReqs : Len(orders) < MaxOrders /\ PostOrder(req)
  \/ \E o \in 1..Len(tasks) : ReconcileFind(o)
  \/ \E o \in 1..Len(tasks) : ReconcileUpdate(o)
  \/ \E o \in 1..Len(tasks) : ReconcileCreate(o)
  \/ \E o \in 1..Len(tasks) : ReconcileLink(o)
  \/ \E id \in OrderIds : DeleteOrder(id)
  \/ \E body \in CustomerBodies : PostCustomer(body)
  \/ \E id \in CustomerIds, body \in CustomerPatchBodies : PatchCustomer(id, body)

SpecCustomers == Init /\ [][NextCustomers]_vars

\* orders and edits that append line items, one edit at a time
NextItems ==
  \/ \E req \in ItemPostReqs : Len(orders) < MaxOrders /\ PostOrder(req)
  \/ \E id \in OrderIds, req \in ItemPatchReqs :
       edits = <<>> /\ nEdits < MaxAppends /\ PatchBegin(id, req)
  \/ \E k \in 1..Len(edits) : PatchCommit(k)
  \/ \E id \in ReqModifierIds : DeleteModifier(id)

SpecItems == Init /\ [][NextItems]_vars

\* the same with edits that overlap
NextOverlap ==
  \/ \E req \in ItemPostReqs : Len(orders) < MaxOrders /\ PostOrder(req)
  \/ \E id \in OrderIds, req \in ItemPatchReqs :
       nEdits < MaxAppends /\ PatchBegin(id, req)
  \/ \E k \in 1..Len(edits) : PatchCommit(k)

SpecOverlap == Init /\ [][NextOverlap]_vars

\* one order with a phone, its reconciliation, and edits that overlap
NextRelink ==
  \/ \E req \in RelinkPostReqs : Len(orders) < MaxOrders /\ PostOrder(req)
  \/ \E o \in 1..Len(tasks) : ReconcileFind(o)
  \/ \E o \in 1..Len(tasks) : ReconcileUpdate(o)
  \/ \E o \in 1..Len(tasks) : ReconcileCreate(o)
  \/ \E o \in 1..Len(tasks) : ReconcileLink(o)
  \/ \E id \in OrderIds, req \in RelinkPatchReqs :
       nEdits < MaxAppends /\ PatchBegin(id, req)
  \/ \E k \in 1..Len(edits) : PatchCommit(k)

SpecRelink == Init /\ [][NextRelink]_vars

-----------------------------------------------------------------------------
(* Properties                                                              *)

AllOrders == 1..Len(orders)
AllCustomers == 1..Len(customers)

\* the non-deleted orders linked to customer c
LinkedLive(c) ==
  {o \in AllOrders : orders[o].customerId = c /\ orders[o].deletedAt = NULLID}

\* no reconciliation and no edit is in flight, and none was lost to a storage error
Quiescent ==
  /\ edits = <<>>
  /\ \A o \in 1..Len(tasks) : tasks[o].pc \in {"none", "done"}

\* C1: with no reconciliation in flight, every customer's orderCount is the
\* number of non-deleted orders linked to it and its totalSpent is the sum of
\* their amounts, after any sequence of order creates, edits and soft-deletes.
C1_AggregatesMatchLinkedOrders ==
  Quiescent =>
    \A c \in AllCustomers :
      /\ customers[c].orderCount = Cardinality(LinkedLive(c))
      /\ FEq(customers[c].totalSpent,
             FSum(LinkedLive(c), [o \in LinkedLive(c) |-> orders[o].amount]))

\* both reconciliations of two orders with one 10-digit phone have ended
PairSettled ==
  /\ Len(orders) = 2
  /\ orders[1].customerPhone = orders[2].customerPhone
  /\ Len(orders[1].customerPhone) = PhoneLen
  /\ \A o \in 1..2 : tasks[o].pc \in {"done", "failed"}

\* C2: once two orders with the same 10-digit phone have both been reconciled,
\* under every interleaving of the reconciliations' storage steps there is
\* exactly one customer with that phone, with orderCount 2, totalSpent the sum
\* of both amounts, and both orders linked to it.
C2_TwoOrdersOneCustomer ==
  PairSettled =>
    LET cs == {c \in AllCustomers : customers[c].phone = orders[1].customerPhone}
    IN /\ Cardinality(cs) = 1
       /\ \A c \in cs :
            /\ customers[c].orderCount = 2
            /\ FEq(customers[c].totalSpent, FAdd(orders[1].amount, orders[2].amount))
            /\ orders[1].customerId = c
            /\ orders[2].customerId = c

CurrentUnitPrice(item) ==
  products[item.productId].price
  + SumSeq([j \in 1..Len(item.modifiers) |-> modifiers[item.modifiers[j].modifierId].price])

\* C4: once an OrderItem and its OrderItemModifier rows exist, their quantity,
\* unitPrice, lineTotal, nameAtTime, priceAtTime and costAtTime never change,
\* whatever product, modifier or order request comes later.
C4_SnapshotsFrozen ==
  [][\A o \in AllOrders : \A k \in 1..Len(orders[o].items) :
        /\ k <= Len(orders'[o].items)
        /\ orders'[o].items[k] = orders[o].items[k]]_vars

\* an edited and then deleted order whose first line still carries the prices
\* and the modifier name of a catalog that has since been changed
C4_Witness ==
  \E o \in AllOrders :
    /\ orders[o].deletedAt # NULLID
    /\ orders[o].customerName = NameB
    /\ orders[o].items[1].modifiers # <<>>
    /\ orders[o].items[1].unitPrice # CurrentUnitPrice(orders[o].items[1])
    /\ LET m == orders[o].items[1].modifiers[1]
       IN /\ m.nameAtTime # modifiers[m.modifierId].name
          /\ m.priceAtTime # modifiers[m.modifierId].price
          /\ m.costAtTime # modifiers[m.modifierId].cost
          /\ ~modifiers[m.modifierId].isActive

Query(search, hasDiscount, productIds, limit) ==
  [search |-> search, hasDiscount |-> hasDiscount, productIds |-> productIds, limit |-> limit]

OrderQueries ==
  { Query(<<>>, UNDEFINED, {}, Undef),
    Query(NameA, UNDEFINED, {}, Num(1)),
    Query(<<"9">>, "no", {}, Undef),
    Query(<<>>, "yes", {"p1"}, Undef) }

\* every read endpoint answers as if the rows `gone` were not in the table
AbsentFromReads(gone) ==
  /\ \A q \in OrderQueries : GetOrders(AllOrders, q) = GetOrders(AllOrders \ gone, q)
  /\ GetStats(AllOrders) = GetStats(AllOrders \ gone)
  /\ GetStatsLatest(AllOrders) = GetStatsLatest(AllOrders \ gone)
  /\ \A c \in 1..(Len(customers) + 1) :
       GetCustomer(AllOrders, c) = GetCustomer(AllOrders \ gone, c)

DeletedOrders == {o \in AllOrders : orders[o].deletedAt # NULLID}

DeletedAbsentFromReads == DeletedOrders # {} => AbsentFromReads(DeletedOrders)

\* C5: DELETE /orders/{id} changes nothing but the order's deletedAt (the row
\* and its item rows stay), and from then on the order is absent from
\* GET /orders (list, totalCount, totalRevenue), GET /stats, GET /stats/latest
\* and the history of GET /customers/{id}.
C5_SoftDelete ==
  /\ [][/\ Len(orders') >= Len(orders)
        /\ \A id \in AllOrders :
             orders'[id].deletedAt # orders[id].deletedAt =>
               /\ orders'[id].deletedAt # NULLID
               /\ orders' = [orders EXCEPT ![id].deletedAt = orders'[id].deletedAt]
               /\ UNCHANGED <<products, modifiers, customers, tasks>>]_vars
  /\ []DeletedAbsentFromReads

\* a deleted order that has items, is linked to a customer and had a discount
C5_Witness ==
  \E o \in AllOrders :
    /\ orders[o].deletedAt # NULLID
    /\ orders[o].items # <<>>
    /\ orders[o].customerId # NULLID
    /\ last = [op |-> "DELETE /orders", status |-> 200, error |-> ""]

\* C7: in every reachable state an order whose discountPercent is 0 has a
\* null discountNote, whatever note the request sent or the order held.
C7_NoNoteWithoutDiscount ==
  \A o \in AllOrders : FEq(orders[o].discountPercent, 0) => orders[o].discountNote = NULL

\* an edit has just brought an order to discount 0, its note null
C7_Witness ==
  /\ last = [op |-> "PATCH /orders", status |-> 200, error |-> ""]
  /\ \E o \in AllOrders : orders[o].discountPercent = 0 /\ orders[o].discountNote = NULL

\* C8: deleted is terminal: a non-null deletedAt never becomes null again, and
\* a PATCH /orders/{id} issued when the order is deleted answers with an error
\* and leaves the orders, their items and the customers unchanged.
C8_DeletedIsTerminal ==
  [][/\ \A o \in AllOrders : orders[o].deletedAt # NULLID => orders'[o].deletedAt # NULLID
     /\ \A id \in AllOrders, req \in PatchReqs :
          (orders[id].deletedAt # NULLID /\ PatchBegin(id, req)) =>
            /\ last'.status = 400
            /\ UNCHANGED <<orders, customers, edits, tasks>>]_vars

\* an edit of a deleted order has just been refused
C8_Witness ==
  /\ last = [op |-> "PATCH /orders", status |-> 400, error |-> "Cannot edit a deleted order"]
  /\ \E o \in AllOrders : orders[o].deletedAt # NULLID

\* some requested product id is not in the catalog
UnknownProduct(items) == \E k \in 1..Len(items) : items[k].productId \notin DOMAIN products

\* C9: a POST /orders naming a product that is not in the catalog answers 400
\* and creates no order, item, customer or reconciliation; a PATCH /orders/{id}
\* whose newItems name an unknown product adds nothing and changes no order
\* or customer.
C9_UnknownProductRejected ==
  [][/\ \A req \in PostReqs :
          (UnknownProduct(req.items) /\ PostOrder(req)) =>
            /\ last'.status = 400
            /\ UNCHANGED <<orders, customers, tasks, edits>>
     /\ \A id \in AllOrders, req \in PatchReqs :
          (UnknownProduct(req.newItems) /\ PatchBegin(id, req)) =>
            /\ last'.status = 400
            /\ UNCHANGED <<orders, customers, tasks, edits>>]_vars

\* an edit naming an unknown product was refused on an order linked to a customer
C9_Witness ==
  /\ last = [op |-> "PATCH /orders", status |-> 400, error |-> "One or more products not found"]
  /\ \E o \in AllOrders : orders[o].customerId # NULLID

\* C10: when handleCustomerAsync fails at any storage step, the order and its
\* items stay as stored, no response changes (the POST answered 201), and the
\* reconciliation is never run again.
C10_ReconcileFailureIsSwallowed ==
  [][/\ \A o \in 1..Len(tasks) :
          (tasks[o].pc # "failed" /\ tasks'[o].pc = "failed") =>
            /\ orders' = orders
            /\ last' = last
     /\ \A o \in 1..Len(tasks) :
          tasks[o].pc \in {"failed", "done"} => tasks'[o] = tasks[o]
     /\ Len(orders') > Len(orders) =>
          last' = [op |-> "POST /orders", status |-> 201, error |-> ""]]_vars

\* a reconciliation failed after its POST had answered 201; the order is stored, unlinked
C10_Witness ==
  /\ last = [op |-> "POST /orders", status |-> 201, error |-> ""]
  /\ \E o \in 1..Len(tasks) :
       /\ tasks[o].pc = "failed"
       /\ orders[o].customerId = NULLID
       /\ orders[o].items # <<>>

\* the edit in flight reads the order as it is now: linked to the customer it
\* read, with the amount it read
ReadsCurrent(e) ==
  /\ orders[e.id].customerId = e.oldCustomerId
  /\ orders[e.id].amount = e.oldAmount

\* C11: when a PATCH /orders/{id} commits on an order linked to customer C with
\* amount A, and the amount or the phone changes, then C loses one order and A,
\* the customer of the new 10-digit phone (created if absent) gains one order
\* and the new amount, and the order is linked to that customer; when both are
\* the same customer its orderCount stays and its totalSpent moves by new - A.
C11_EditMovesTheOrder ==
  [][\A k \in 1..Len(edits) :
       LET e == edits[k]
           C == orders[e.id].customerId
           A == orders[e.id].amount
           T == IF CustomerByPhone(e.phone) # NULLID
                THEN CustomerByPhone(e.phone) ELSE Len(customers) + 1
       IN (/\ PatchCommit(k)
           /\ C # NULLID
           /\ ReadsCurrent(e)
           /\ Len(e.phone) = PhoneLen
           /\ (e.amount # A \/ e.phone # orders[e.id].customerPhone))
          => /\ orders'[e.id].customerId = T
             /\ Len(customers') >= T
             /\ IF T = C
                THEN /\ customers'[C].orderCount = customers[C].orderCount
                     /\ customers'[C].totalSpent
                          = FAdd(FSub(customers[C].totalSpent, A), e.amount)
                ELSE /\ customers'[C].orderCount = customers[C].orderCount - 1
                     /\ customers'[C].totalSpent = FSub(customers[C].totalSpent, A)
                     /\ customers'[T].orderCount
                          = (IF T <= Len(customers) THEN customers[T].orderCount ELSE 0) + 1
                     /\ customers'[T].totalSpent
                          = FAdd(IF T <= Len(customers) THEN customers[T].totalSpent ELSE 0,
                                 e.amount)]_vars

\* an edit has moved an order from its first customer to a customer created
\* for the new phone
C11_Witness ==
  /\ last = [op |-> "PATCH /orders", status |-> 200, error |-> ""]
  /\ Len(customers) = 2
  /\ customers[1].orderCount = 0
  /\ customers[1].totalSpent = 0
  /\ customers[2].orderCount = 1
  /\ \E o \in AllOrders :
       /\ orders[o].customerId = 2
       /\ customers[2].phone = orders[o].customerPhone
       /\ customers[2].totalSpent = orders[o].amount

NoSharedPhone ==
  \A c, d \in AllCustomers : customers[c].phone = customers[d].phone => c = d

\* C12: no two customers ever share a phone; a POST /customers whose phone
\* already belongs to a customer, and a PATCH /customers/{id} to a phone held
\* by another customer, answer 409 and change no customer and no order.
C12_DuplicatePhoneRefused ==
  /\ []NoSharedPhone
  /\ [][/\ \A body \in CustomerBodies :
             (/\ body.name # <<>>
              /\ \E c \in AllCustomers : customers[c].phone = Trim(body.phone)
              /\ PostCustomer(body))
             => /\ last'.status = 409
                /\ UNCHANGED <<orders, customers>>
        /\ \A id \in AllCustomers, body \in CustomerPatchBodies :
             (/\ \E c \in AllCustomers \ {id} : customers[c].phone = Trim(body.phone)
              /\ PatchCustomer(id, body))
             => /\ last'.status = 409
                /\ UNCHANGED <<orders, customers>>]_vars

C14_CustomerPhoneTenDigits ==
  \A c \in AllCustomers :
    Len(customers[c].phone) = PhoneLen /\ AllDigits(customers[c].phone)

NotFoundUnchanged == last'.status = 404 /\ UNCHANGED <<db, tasks, edits>>

\* C15: every operation addressed to an id that matches no row (PATCH or
\* DELETE /orders/{id}, GET or PATCH /customers/{id}, PATCH /products/{id},
\* PATCH or DELETE /modifiers/{id}) answers 404 and changes no stored state.
C15_UnknownIdIs404 ==
  /\ [](\A c \in CustomerIds \ AllCustomers : GetCustomer(AllOrders, c).status = 404)
  /\ [][/\ \A id \in OrderIds \ AllOrders :
             /\ DeleteOrder(id) => NotFoundUnchanged
             /\ \A req \in CatalogPatchReqs : PatchBegin(id, req) => NotFoundUnchanged
        /\ \A id \in CustomerIds \ AllCustomers, body \in CustomerPatchBodies :
             PatchCustomer(id, body) => NotFoundUnchanged
        /\ \A id \in ReqProductIds \ DOMAIN products, body \in ProductBodies :
             PatchProduct(id, body) => NotFoundUnchanged
        /\ \A id \in ReqModifierIds \ DOMAIN modifiers :
             /\ DeleteModifier(id) => NotFoundUnchanged
             /\ \A body \in ModifierBodies : PatchModifier(id, body) => NotFoundUnchanged]_vars

\* every customer's aggregates are those of the non-deleted orders linked to it
AggregatesMatch ==
  \A c \in AllCustomers :
    /\ customers[c].orderCount = Cardinality(LinkedLive(c))
    /\ FEq(customers[c].totalSpent,
           FSum(LinkedLive(c), [o \in LinkedLive(c) |-> orders[o].amount]))

\* C17: when a PATCH /orders/{id} has committed and linked the order while
\* handleCustomerAsync for that order was still running, then once that
\* reconciliation has ended (and no edit is in flight) the customer's
\* orderCount and totalSpent reflect the order exactly once.
C17_CountedOnceUnderInterleaving ==
  [][\A o \in 1..Len(tasks) :
       (/\ orders[o].customerId # NULLID
        /\ tasks[o].pc \in {"find", "update", "create", "link"}
        /\ tasks'[o].pc = "done"
        /\ edits = <<>>)
       => AggregatesMatch']_vars

\* C18: a PATCH /orders/{id} that commits on an order linked to a customer and
\* changes neither the amount nor the phone (no change at all, or only the
\* name or the discount note) leaves that customer's orderCount and totalSpent
\* as they were.
C18_NoChangeEditKeepsAggregates ==
  [][\A k \in 1..Len(edits) :
       LET e == edits[k]
           C == orders[e.id].customerId
       IN (/\ PatchCommit(k)
           /\ C # NULLID
           /\ ReadsCurrent(e)
           /\ e.amount = orders[e.id].amount
           /\ e.phone = orders[e.id].customerPhone)
          => /\ customers'[C].orderCount = customers[C].orderCount
             /\ customers'[C].totalSpent = customers[C].totalSpent]_vars

\* the modifiers a request line asks for that exist and are active
WantedModifiers(mids) ==
  {m \in {mids[j] : j \in 1..Len(mids)} : m \in DOMAIN modifiers /\ modifiers[m].isActive}

\* the stored line `item` is the resolution of the request line `line`
ResolvedOnce(line, item) ==
  LET wanted == WantedModifiers(line.modifierIds)
  IN /\ item.productId = line.productId
     /\ item.unitPrice
          = products[line.productId].price + FSum(wanted, [m \in wanted |-> modifiers[m].price])
     /\ item.lineTotal = item.unitPrice * item.quantity
     /\ Len(item.modifiers) = Cardinality(wanted)
     /\ \A m \in wanted :
          \E j \in 1..Len(item.modifiers) :
            item.modifiers[j] = [modifierId |-> m,
                                 nameAtTime |-> modifiers[m].name,
                                 priceAtTime |-> modifiers[m].price,
                                 costAtTime |-> modifiers[m].cost]

\* C16: every line resolved by POST /orders or by the newItems of a PATCH
\* drops unknown and inactive modifier ids without error, has unitPrice =
\* product price + the price of each distinct requested active modifier once,
\* lineTotal = unitPrice * quantity, and one snapshot per applied modifier.
C16_LinesResolvedOnce ==
  [][/\ \A req \in ItemPostReqs :
          PostOrder(req) =>
            /\ last'.status = 201
            /\ Len(orders') = Len(orders) + 1
            /\ Len(orders'[Len(orders')].items) = Len(req.items)
            /\ \A k \in 1..Len(req.items) :
                 ResolvedOnce(req.items[k], orders'[Len(orders')].items[k])
     /\ \A id \in AllOrders, req \in ItemPatchReqs :
          (orders[id].deletedAt = NULLID /\ PatchBegin(id, req)) =>
            /\ Len(edits') = Len(edits) + 1
            /\ Len(edits'[Len(edits')].newItems) = Len(req.newItems)
            /\ \A k \in 1..Len(req.newItems) :
                 ResolvedOnce(req.newItems[k], edits'[Len(edits')].newItems[k])]_vars

SubtotalIsItemsTotal ==
  \A o \in AllOrders : orders[o].subtotal = ItemsTotal(orders[o].items)

\* C19: a PATCH /orders/{id} only appends lines: the lines the order had are
\* kept as they were, in place; and when edits do not overlap, after any
\* number of them the subtotal is the sum of lineTotal over the order's lines.
C19_EditsOnlyAppend ==
  /\ []SubtotalIsItemsTotal
  /\ [][\A k \in 1..Len(edits) :
          PatchCommit(k) =>
            LET id == edits[k].id
            IN /\ Len(orders'[id].items) = Len(orders[id].items) + Len(edits[k].newItems)
               /\ SubSeq(orders'[id].items, 1, Len(orders[id].items)) = orders[id].items]_vars

\* two edits in a row have each appended a line
C19_Witness ==
  /\ last = [op |-> "PATCH /orders", status |-> 200, error |-> ""]
  /\ nEdits = 2
  /\ edits = <<>>
  /\ \E o \in AllOrders :
       /\ Len(orders[o].items) = 3
       /\ orders[o].subtotal = ItemsTotal(orders[o].items)
       /\ orders[o].items[2] # orders[o].items[3]

\* C20: after two overlapping edits of one order that both append lines have
\* committed, the subtotal is the sum of lineTotal over all the order's lines
\* and the amount is that sum less the discount.
C20_OverlappingEditsKeepTotals ==
  edits = <<>> =>
    \A o \in AllOrders :
      /\ orders[o].subtotal = ItemsTotal(orders[o].items)
      /\ FEq(orders[o].amount,
             FSub(ItemsTotal(orders[o].items), orders[o].discountAmount))

\* C21: whatever the interleaving of a PATCH /orders/{id} with a DELETE
\* /orders/{id} of the same order, no edit is committed to an order whose
\* deletedAt is set: when the delete has committed before the edit's
\* transaction, the edit changes no order, no line and no customer.
C21_NoEditAfterDelete ==
  [][\A k \in 1..Len(edits) :
       (PatchCommit(k) /\ orders[edits[k].id].deletedAt # NULLID)
       => UNCHANGED <<orders, customers>>]_vars

\* C22: in every reachable state, those reached by overlapping edits of one
\* linked order included, every customer has orderCount >= 0 and
\* totalSpent >= 0.
C22_AggregatesNotNegative ==
  \A c \in AllCustomers :
    /\ customers[c].orderCount >= 0
    /\ customers[c].totalSpent >= 0

\* C23: right after any step that sets an order's customerId (the
\* reconciliation after the create, or the re-link of an edit), the customer
\* it references has the order's customerPhone as its phone, whatever the
\* interleaving of the reconciliation with edits.
C23_LinkMatchesPhone ==
  [][\A o \in AllOrders :
       (orders'[o].customerId # orders[o].customerId /\ orders'[o].customerId # NULLID)
       => /\ orders'[o].customerId \in 1..Len(customers')
          /\ customers'[orders'[o].customerId].phone = orders'[o].customerPhone]_vars

\* C24: the figures GET /customers returns for a customer (orderCount,
\* totalSpent, _count.orders, and totalRevenue over the customers) include no
\* soft-deleted order: with no reconciliation in flight they are the count
\* and the amounts of the non-deleted orders linked to the customer.
C24_CustomerFiguresSkipDeleted ==
  (\A o \in 1..Len(tasks) : tasks[o].pc \in {"none", "done"}) =>
    LET r == GetCustomers(AllOrders)
        live == {o \in AllOrders : orders[o].customerId # NULLID /\ orders[o].deletedAt = NULLID}
    IN /\ \A c \in AllCustomers :
            /\ r.customers[c].orderCount = Cardinality(LinkedLive(c))
            /\ r.customers[c].countOrders = Cardinality(LinkedLive(c))
            /\ r.customers[c].totalSpent
                 = FSum(LinkedLive(c), [o \in LinkedLive(c) |-> orders[o].amount])
       /\ r.totalRevenue = FSum(live, [o \in live |-> orders[o].amount])

\* C25: a PATCH /products/{id} or PATCH /modifiers/{id} touches no existing
\* order's figures: the totalRevenue, totalCost and totalProfit of GET /stats
\* over the same orders and range are the same before and after it.
C25_CatalogEditKeepsStats ==
  [][(\/ \E id \in ReqProductIds, body \in ProductBodies : PatchProduct(id, body)
      \/ \E id \in ReqModifierIds, body \in ModifierBodies : PatchModifier(id, body))
     => /\ GetStats(AllOrders)'.totalRevenue = GetStats(AllOrders).totalRevenue
        /\ GetStats(AllOrders)'.totalCost = GetStats(AllOrders).totalCost
        /\ GetStats(AllOrders)'.totalProfit = GetStats(AllOrders).totalProfit]_vars

\* the orders linked to customer c, deleted or not
Linked(c) == {o \in AllOrders : orders[o].customerId = c}

\* C26: the reconciliation is all-or-nothing with respect to the link: once
\* every handleCustomerAsync has ended, by success or by a swallowed failure
\* at any step, and no edit has been made, a customer's aggregates count an
\* order and its amount exactly when the order's customerId is that customer,
\* whether the customer existed already or was created.
C26_ReconcileAllOrNothing ==
  (/\ nEdits = 0
   /\ \A o \in 1..Len(tasks) : tasks[o].pc \in {"none", "done", "failed"})
  => \A c \in AllCustomers :
       /\ customers[c].orderCount = Cardinality(Linked(c))
       /\ FEq(customers[c].totalSpent, FSum(Linked(c), [o \in Linked(c) |-> orders[o].amount]))

\* C27: with no storage error and fair scheduling, every order created by
\* POST /orders with a 10-digit phone is eventually linked to the customer
\* with that phone, also when several orders for one phone that no customer
\* has yet are created concurrently.
C27_EventuallyLinked ==
  \A o \in 1..MaxPair :
    [](( /\ o \in AllOrders
         /\ Len(orders[o].customerPhone) = PhoneLen)
       => <>( /\ o \in AllOrders
              /\ orders[o].customerId \in AllCustomers
              /\ customers[orders[o].customerId].phone = orders[o].customerPhone))

\* C28: a PATCH /orders/{id} whose customerPhone is the empty string, on an
\* order linked to a customer, unlinks it: the edit it prepares has the empty
\* phone, and its commit leaves the order with an empty customerPhone and no
\* customerId and takes one order and the prior amount from the customer.
\* (A request's customerPhone <<>> is the empty string; the handler treats an
\* absent one the same way, both being falsy.)
C28_EmptyPhoneUnlinks ==
  [][/\ \A id \in AllOrders, req \in PatchReqs :
          (/\ req.customerPhone = <<>>
           /\ orders[id].customerId # NULLID
           /\ PatchBegin(id, req)
           /\ Len(edits') = Len(edits) + 1)
          => edits'[Len(edits')].phone = <<>>
     /\ \A k \in 1..Len(edits) :
          LET e == edits[k]
              C == orders[e.id].customerId
          IN (PatchCommit(k) /\ e.phone = <<>> /\ C # NULLID /\ ReadsCurrent(e))
             => /\ orders'[e.id].customerPhone = <<>>
                /\ orders'[e.id].customerId = NULLID
                /\ customers'[C].orderCount = customers[C].orderCount - 1
                /\ customers'[C].totalSpent = FSub(customers[C].totalSpent, orders[e.id].amount)]_vars

\* C29: every non-deleted order POST /orders accepted can be edited: a PATCH
\* /orders/{id} that gives a customerName and no customerPhone is accepted
\* with that name and the order's phone, whatever phone the order was created
\* with, a phone that is not 10 digits included.
C29_NameEditAlwaysAccepted ==
  [][\A id \in AllOrders, req \in PatchReqs :
       (/\ orders[id].deletedAt = NULLID
        /\ Trim(req.customerName) # <<>>
        /\ req.customerPhone = <<>>
        /\ req.newItems = <<>>
        /\ PatchBegin(id, req))
       => /\ Len(edits') = Len(edits) + 1
          /\ edits'[Len(edits')].name = Trim(req.customerName)
          /\ last' = last]_vars

\* C30: a PATCH /orders/{id} whose body has no discountPercent keeps the
\* order's current one: the edit it prepares carries the order's
\* discountPercent, with discountAmount and amount computed from the new
\* subtotal with that percent, and its commit stores them.
C30_OmittedPercentKept ==
  [][/\ \A id \in AllOrders, req \in DiscountPatchReqs :
          (/\ req.discountPercent = Undef
           /\ PatchBegin(id, req)
           /\ Len(edits') = Len(edits) + 1)
          => LET e == edits'[Len(edits')]
                 percent == orders[id].discountPercent
             IN /\ e.percent = percent
                /\ e.discountAmount = DiscountAmount(e.subtotal, percent)
                /\ e.amount = FSub(e.subtotal, DiscountAmount(e.subtotal, percent))
     /\ \A k \in 1..Len(edits) :
          PatchCommit(k) =>
            /\ orders'[edits[k].id].discountPercent = edits[k].percent
            /\ orders'[edits[k].id].discountAmount = edits[k].discountAmount
            /\ orders'[edits[k].id].amount = edits[k].amount]_vars

====
